---- MODULE Spec2Model ----
(***************************************************************************)
(* Decentralised area coverage of the SMASH/GAMS drone controller.         *)
(*                                                                         *)
(* The model follows area_coverage_module.cpp: the Madara logic            *)
(* area_coverage_doAreaCoverage (one control tick of one drone), the       *)
(* availability scan area_coverage_updateAvailableDrones, and the C++      *)
(* callbacks madaraInitSearchCell, madaraCalculateAndMoveToAltitude,       *)
(* madaraSetNewTarget, madaraTargetReached and madaraReachedFinalTarget.   *)
(*                                                                         *)
(* Units.  Latitudes and longitudes are integers counting micro-degrees    *)
(* (1 = 0.000001 degree), so REACHED_ACCURACY 0.0000050 is 5.  Altitudes   *)
(* are integers counting decimetres, so ALTITUDE_DIFFERENCE 0.5 m is 5.    *)
(*                                                                         *)
(* Knowledge.  Variables whose Madara name starts with '.' are local to    *)
(* one drone's knowledge base; they are functions over the set of drones   *)
(* whose engine is modelled.  The other variables are the replicated       *)
(* knowledge; every tick reads the values current at that tick, and the    *)
(* replication collaborator changes them between ticks.                    *)
(***************************************************************************)
EXTENDS Integers, Sequences, FiniteSets, TLC

VARIABLES
    totalDevices,           \* MV_TOTAL_DEVICES
    mobile,                 \* MV_MOBILE(i)
    busy,                   \* MV_BUSY(i)
    assignedSearchArea,     \* MV_ASSIGNED_SEARCH_AREA(i)
    areaCoverageRequested,  \* MV_AREA_COVERAGE_REQUESTED(i)
    devicePos,              \* MV_DEVICE_LAT(i), MV_DEVICE_LON(i)
    searchRegion,           \* MV_REGION_TOPLEFT_*/BOTRIGHT_* of MV_SEARCH_AREA_REGION(a)
    minAltitude,            \* MV_MIN_ALTITUDE
    areaCoverageHeightDiff, \* MV_AREA_COVERAGE_HEIGHT_DIFF
    assignedAltitude,       \* MV_ASSIGNED_ALTITUDE(i)
    cellInitialized,        \* MV_CELL_INITIALIZED           (local)
    nextTarget,             \* MV_NEXT_TARGET_LAT/LON        (local)
    availableTotal,         \* MV_AVAILABLE_DRONES_AMOUNT    (local)
    availableMyIdx,         \* MV_AVAILABLE_DRONES_MY_IDX    (local)
    myCell,                 \* MV_MY_CELL_TOP_LEFT_*/BOT_RIGHT_*  (local)
    movementRequested,      \* MV_MOVEMENT_REQUESTED         (local)
    movementTarget,         \* MV_MOVEMENT_TARGET_LAT/LON/ALT (local)
    coverageAlgorithm,      \* m_coverageAlgorithm, the object it points to
    reachedResult,          \* value returned by the last area_coverage_checkTargetReached
    m_regionId,             \* MadaraController::m_regionId
    m_knowledge,            \* MadaraController::m_knowledge, the controller's knowledge base
    modifieds,              \* the variables of m_knowledge modified and not sent yet
    disseminated,           \* the packets the controller has sent, oldest first
    currentThermals,        \* the vector returned by the last getCurrentThermals
    liveInstances           \* coverage-algorithm objects allocated and not deleted, per process

vars == <<totalDevices, mobile, busy, assignedSearchArea, areaCoverageRequested,
          devicePos, searchRegion, minAltitude, areaCoverageHeightDiff, assignedAltitude,
          cellInitialized, nextTarget, availableTotal, availableMyIdx, myCell,
          movementRequested, movementTarget, coverageAlgorithm, reachedResult,
          m_regionId, m_knowledge, modifieds, disseminated, currentThermals,
          liveInstances>>

\* The variables of the system controller (MadaraSystemController.cpp).  The
\* specifications of the drones see the controller through the replicated
\* knowledge only and leave these as they are.
controllerVars == <<m_regionId, m_knowledge, modifieds, disseminated,
                    currentThermals>>

----------------------------------------------------------------------------
(* Bounds of the model. *)

\* Drones running an engine in the multi-drone specifications.
NumDrones == 2

\* Entries of the device table in the single-engine scan specification.
MaxDevices == 3

\* Largest search-area id.
MaxArea == 1

(* Program constants. *)

\* #define REACHED_ACCURACY 0.0000050 (degrees), in micro-degrees.
REACHED_ACCURACY == 5

\* #define ALTITUDE_DIFFERENCE 0.5 (metres), in decimetres.
ALTITUDE_DIFFERENCE == 5

Areas == 0..MaxArea

Devices == 0..(totalDevices - 1)

\* The drones whose engine (local knowledge base) is part of the state.
Engines == DOMAIN cellInitialized

Abs(x) == IF x < 0 THEN -x ELSE x

Pos(lat, lon) == <<lat, lon>>

Lat(p) == p[1]

Lon(p) == p[2]

----------------------------------------------------------------------------
(* area_coverage_updateAvailableDrones *)

\* Line 150: the amount the loop starts from.
ScanStartCarried(previous) == previous

ScanStart(previous) == 0

\* Line 156: a drone is available if it is mobile, not busy and assigned to
\* the same area as the scanning drone.
IsAvailable(i, self) ==
    /\ mobile[i] = 1
    /\ ~(busy[i] = 1)
    /\ assignedSearchArea[i] = assignedSearchArea[self]

\* Line 160: the value stored in MV_AVAILABLE_DRONES_MY_IDX when the loop
\* variable .i meets .id; amount is the number of available drones found
\* before i.
MyIdxOfFirstFound(i, amount) == 0

MyIdxWhenFound(i, amount) == i

\* Lines 153-163: the loop over .i in [0, MV_TOTAL_DEVICES), from i on.
\* The result is <<amount, my_idx>>.
RECURSIVE ScanLoop(_, _, _, _)
ScanLoop(self, i, amount, idx) ==
    IF i >= totalDevices
    THEN <<amount, idx>>
    ELSE IF IsAvailable(i, self)
         THEN ScanLoop(self, i + 1, amount + 1,
                       IF i = self THEN MyIdxWhenFound(i, amount) ELSE idx)
         ELSE ScanLoop(self, i + 1, amount, idx)

\* The whole function, from the local values prevAmount and prevIdx.
UpdateAvailableDrones(self, prevAmount, prevIdx) ==
    ScanLoop(self, 0, ScanStart(prevAmount), prevIdx)

----------------------------------------------------------------------------
(* Initial knowledge. *)

\* A region: its top-left and bottom-right corners, each <<latitude, longitude>>.
Region(topLeft, bottomRight) == [topLeft |-> topLeft, bottomRight |-> bottomRight]

\* The regions the runs draw from for search area 0.  The first has its
\* top-left corner at latitude 0, longitude 0; the second has its
\* bottom-left corner there.
Regions ==
    { Region(Pos(0, 0), Pos(-60, 30)),
      Region(Pos(60, 0), Pos(0, 30)) }

\* The region of the other search areas, away from latitude 0, longitude 0.
DefaultRegion == Region(Pos(160, 100), Pos(100, 130))

\* The minimum altitudes the runs draw from (decimetres).
MinAltitudes == {20}

\* The vertical separations the swarm runs are configured with (decimetres).
HeightDiffs == {5}

\* A cell that was never stored: the four corner variables are unset.
NoCell == Region(Pos(0, 0), Pos(0, 0))

\* No coverage algorithm was created yet (the static pointer is null).
NullAlgorithm == [kind |-> "null"]

\* The controller after its constructor, lines 25-57: the region counter is
\* 0, its knowledge base holds no variable and nothing was sent.
InitController ==
    /\ m_regionId = 0
    /\ m_knowledge = [k \in {} |-> 0]
    /\ modifieds = <<>>
    /\ disseminated = <<>>
    /\ currentThermals = <<>>

\* The replicated knowledge of a swarm of n devices before any device or
\* controller wrote to it, with region r registered for search area 0.
InitKnowledge(n, r) ==
    /\ totalDevices = n
    /\ mobile = [i \in 0..(n - 1) |-> 0]
    /\ busy = [i \in 0..(n - 1) |-> 0]
    /\ assignedSearchArea = [i \in 0..(n - 1) |-> 0]
    /\ areaCoverageRequested = [i \in 0..(n - 1) |-> 0]
    /\ devicePos = [i \in 0..(n - 1) |-> Pos(0, 0)]
    /\ searchRegion = [a \in Areas |-> IF a = 0 THEN r ELSE DefaultRegion]
    /\ minAltitude \in MinAltitudes
    /\ areaCoverageHeightDiff \in HeightDiffs
    /\ assignedAltitude = [i \in 0..(n - 1) |-> 0]
    /\ InitController

\* The local knowledge of the engines of the drones in E after
\* SMASH::AreaCoverage::initialize: every local variable is unset.
InitEngines(E) ==
    /\ cellInitialized = [e \in E |-> 0]
    /\ nextTarget = [e \in E |-> Pos(0, 0)]
    /\ availableTotal = [e \in E |-> 0]
    /\ availableMyIdx = [e \in E |-> 0]
    /\ myCell = [e \in E |-> NoCell]
    /\ movementRequested = [e \in E |-> "none"]
    /\ movementTarget = [e \in E |-> [lat |-> 0, lon |-> 0, alt |-> 0]]
    /\ coverageAlgorithm = [e \in E |-> NullAlgorithm]
    /\ liveInstances = [e \in E |-> 0]
    /\ reachedResult = [e \in E |-> -1]

----------------------------------------------------------------------------
(* The replication collaborator: values of other devices arriving. *)

ReplicateMobile(i) ==
    /\ mobile' = [mobile EXCEPT ![i] = 1 - @]
    /\ UNCHANGED <<controllerVars, totalDevices, liveInstances, busy, assignedSearchArea, areaCoverageRequested,
                   devicePos, searchRegion, minAltitude, areaCoverageHeightDiff, assignedAltitude,
                   cellInitialized, nextTarget, availableTotal, availableMyIdx,
                   myCell, movementRequested, movementTarget, coverageAlgorithm,
                   reachedResult>>

ReplicateBusy(i) ==
    /\ busy' = [busy EXCEPT ![i] = 1 - @]
    /\ UNCHANGED <<controllerVars, totalDevices, liveInstances, mobile, assignedSearchArea, areaCoverageRequested,
                   devicePos, searchRegion, minAltitude, areaCoverageHeightDiff, assignedAltitude,
                   cellInitialized, nextTarget, availableTotal, availableMyIdx,
                   myCell, movementRequested, movementTarget, coverageAlgorithm,
                   reachedResult>>

ReplicateAssignedSearchArea(i, a) ==
    /\ assignedSearchArea[i] # a
    /\ assignedSearchArea' = [assignedSearchArea EXCEPT ![i] = a]
    /\ UNCHANGED <<controllerVars, totalDevices, liveInstances, mobile, busy, areaCoverageRequested,
                   devicePos, searchRegion, minAltitude, areaCoverageHeightDiff, assignedAltitude,
                   cellInitialized, nextTarget, availableTotal, availableMyIdx,
                   myCell, movementRequested, movementTarget, coverageAlgorithm,
                   reachedResult>>

----------------------------------------------------------------------------
(* The availability scan on its own: one engine, evaluating the compiled    *)
(* expression ACE_FIND_AVAILABLE_DRONES_POSITIONS.                          *)

EvaluateFindAvailableDrones(e) ==
    /\ LET r == UpdateAvailableDrones(e, availableTotal[e], availableMyIdx[e])
       IN /\ availableTotal' = [availableTotal EXCEPT ![e] = r[1]]
          /\ availableMyIdx' = [availableMyIdx EXCEPT ![e] = r[2]]
    /\ UNCHANGED <<controllerVars, totalDevices, liveInstances, mobile, busy, assignedSearchArea,
                   areaCoverageRequested, devicePos, searchRegion, minAltitude, areaCoverageHeightDiff,
                   assignedAltitude, cellInitialized, nextTarget, myCell,
                   movementRequested, movementTarget, coverageAlgorithm,
                   reachedResult>>

InitScan ==
    /\ InitKnowledge(MaxDevices, DefaultRegion)
    /\ \E self \in 0..(MaxDevices - 1) : InitEngines({self})

NextScan ==
    \/ \E i \in Devices : ReplicateMobile(i)
    \/ \E i \in Devices : ReplicateBusy(i)
    \/ \E i \in Devices, a \in Areas : ReplicateAssignedSearchArea(i, a)
    \/ \E e \in Engines : EvaluateFindAvailableDrones(e)

SpecScan == InitScan /\ [][NextScan]_vars

----------------------------------------------------------------------------
(* The region partitioner and the snake pattern.  SnakeAreaCoverage.cpp is  *)
(* not among the sources; both follow sections 4.2 and 4.3 of the           *)
(* specification.  x is the first coordinate of a corner, y the second.     *)

\* MV_AREA_COVERAGE_LINE_WIDTH, the separation of the legs (micro-degrees).
LineWidth == 30

\* A Region* value: null, or a pointer to a cell.
NullCell == [null |-> TRUE, region |-> NoCell]

PointerTo(cell) == [null |-> FALSE, region |-> cell]

\* Section 4.2, "Failure": the corners are degenerate (zero width or height).
IsDegenerate(region) ==
    \/ region.topLeft[1] = region.bottomRight[1]
    \/ region.topLeft[2] = region.bottomRight[2]

\* Section 4.2: the region is cut in peerCount equal strips along y (the
\* scenario of section 8: ((0,0),(10,10)) with 2 peers gives ((0,0),(10,5))
\* and ((0,5),(10,10))); the strip at index rank is returned.  With
\* peerCount = 0 the whole region is returned; a degenerate region gives no
\* cell.  The result is a Region*: null, or pointing to the cell.
Partition(region, rank, peerCount) ==
    IF IsDegenerate(region) THEN NullCell
    ELSE IF peerCount = 0 THEN PointerTo(region)
    ELSE LET y0 == region.topLeft[2]
             h  == region.bottomRight[2] - region.topLeft[2]
         IN PointerTo(
                Region(Pos(region.topLeft[1], y0 + (rank * h) \div peerCount),
                       Pos(region.bottomRight[1], y0 + ((rank + 1) * h) \div peerCount)))

\* Section 4.3 and section 8: ceil(cellHeight / lineWidth) rows.
SnakeRowsInclusive(cell) ==
    Abs(cell.bottomRight[2] - cell.topLeft[2]) \div LineWidth + 1

SnakeRows(cell) ==
    (Abs(cell.bottomRight[2] - cell.topLeft[2]) + LineWidth - 1) \div LineWidth

\* Two leg endpoints per row.
SnakeWaypoints(cell) == 2 * SnakeRows(cell)

\* The k-th waypoint (k in 1..SnakeWaypoints(cell)): row (k-1) \div 2, swept
\* from the corner side given by the rank's parity, the direction
\* alternating from row to row.
SnakeWaypoint(cell, rank, k) ==
    LET row   == (k - 1) \div 2
        step  == IF cell.bottomRight[2] >= cell.topLeft[2] THEN LineWidth ELSE -LineWidth
        y     == cell.topLeft[2] + row * step
        fromTopLeft == ((row + rank + (k - 1)) % 2) = 0
    IN Pos(IF fromTopLeft THEN cell.topLeft[1] ELSE cell.bottomRight[1], y)

\* new SnakeAreaCoverage() followed by initialize(idx, searchArea, n): the
\* object, holding its cell (hasCell is false when none was generated) and
\* the number of waypoints it has produced; deletes is the number of times
\* the object was deleted (0 while it is allocated).
SnakeInitialize(idx, searchArea, n) ==
    LET c == Partition(searchArea, idx, n)
    IN [kind |-> "snake", hasCell |-> ~c.null, cell |-> c.region, rank |-> idx,
        emitted |-> 0, deletes |-> 0]

\* isTargetingFinalWaypoint(): the last leg endpoint of the last row was
\* produced.
IsTargetingFinalWaypoint(alg) ==
    /\ alg.kind = "snake"
    /\ alg.hasCell
    /\ alg.emitted = SnakeWaypoints(alg.cell)

\* getNextTargetLocation(): the object after the call; the sequence is
\* finite, so past its end the last waypoint stays the target.
AfterGetNextTargetLocation(alg) ==
    IF alg.emitted < SnakeWaypoints(alg.cell)
    THEN [alg EXCEPT !.emitted = @ + 1]
    ELSE alg

\* The waypoint the object is targeting (the one it produced last).
TargetLocation(alg) == SnakeWaypoint(alg.cell, alg.rank, alg.emitted)

----------------------------------------------------------------------------
(* The C++ callbacks and the Madara logic of one tick. *)

\* madaraTargetReached, lines 217-240.
TargetReachedInclusive(currLat, targetLat, currLon, targetLon) ==
    IF Abs(currLat - targetLat) <= REACHED_ACCURACY
       /\ Abs(currLon - targetLon) <= REACHED_ACCURACY
    THEN 1 ELSE 0

madaraTargetReached(currLat, targetLat, currLon, targetLon) ==
    IF Abs(currLat - targetLat) < REACHED_ACCURACY
       /\ Abs(currLon - targetLon) < REACHED_ACCURACY
    THEN 1 ELSE 0

\* area_coverage_checkNextTargetReached, lines 167-180.
NextTargetReached(e) ==
    madaraTargetReached(Lat(devicePos[e]), Lat(nextTarget[e]),
                        Lon(devicePos[e]), Lon(nextTarget[e])) = 1

\* madaraReachedFinalTarget, lines 396-403.
madaraReachedFinalTarget(e) == IsTargetingFinalWaypoint(coverageAlgorithm[e])

\* Lines 133-134: the condition under which the tick sets a new target.
NewTargetCondition(e) ==
    \/ (Lat(nextTarget[e]) = 0 /\ Lon(nextTarget[e]) = 0)
    \/ (NextTargetReached(e) /\ ~madaraReachedFinalTarget(e))

\* Lines 127-136: the tick calls area_coverage_setNewTarget.
CallsSetNewTarget(e) ==
    /\ areaCoverageRequested[e] # 0
    /\ cellInitialized[e] # 0
    /\ NewTargetCondition(e)

\* Lines 127, 138-141: the tick calls area_coverage_initSearchCell.
CallsInitSearchCellUnrequested(e) == cellInitialized[e] = 0

CallsInitSearchCell(e) ==
    /\ areaCoverageRequested[e] # 0
    /\ cellInitialized[e] = 0

\* madaraInitSearchCell, lines 249-291.  The result is the record of what
\* the call leaves: the two scan values, the new algorithm object, the cell
\* stored (the old one when none was generated) and the value returned.
InitSearchCellIgnoringNull(e) ==
    LET scan   == UpdateAvailableDrones(e, availableTotal[e], availableMyIdx[e])
        area   == searchRegion[assignedSearchArea[e]]
        alg    == SnakeInitialize(scan[2], area, scan[1])
    IN [total |-> scan[1], idx |-> scan[2], algorithm |-> alg,
        cell |-> alg.cell, returns |-> 1]

InitSearchCellInvertedCheck(e) ==
    LET scan   == UpdateAvailableDrones(e, availableTotal[e], availableMyIdx[e])
        area   == searchRegion[assignedSearchArea[e]]
        alg    == SnakeInitialize(scan[2], area, scan[1])
    IN [total |-> scan[1], idx |-> scan[2], algorithm |-> alg,
        cell |-> IF alg.hasCell THEN myCell[e] ELSE alg.cell,
        returns |-> IF alg.hasCell THEN 0 ELSE 1]

madaraInitSearchCell(e) ==
    LET scan   == UpdateAvailableDrones(e, availableTotal[e], availableMyIdx[e])
        area   == searchRegion[assignedSearchArea[e]]
        alg    == SnakeInitialize(scan[2], area, scan[1])
    IN [total |-> scan[1], idx |-> scan[2], algorithm |-> alg,
        cell |-> IF alg.hasCell THEN alg.cell ELSE myCell[e],
        returns |-> IF alg.hasCell THEN 1 ELSE 0]

\* madaraCalculateAndMoveToAltitude, lines 300-318: the altitude for the
\* index idx.
AltitudeWithoutIndex(idx) == minAltitude

\* Line 308: the drone whose MV_ASSIGNED_ALTITUDE is written by engine e,
\* which holds the index idx: "{.id}" expands to the engine's own id.
AltitudeRecordOfIndex(e, idx) == idx

AltitudeRecordWritten(e, idx) == e

myDefaultAltitude(idx) == minAltitude + ALTITUDE_DIFFERENCE * idx

\* Line 314: the command madaraCalculateAndMoveToAltitude leaves in
\* MV_MOVEMENT_REQUESTED (MO_MOVE_TO_ALTITUDE_CMD).
AltitudeCommandAsGps == "move_to_gps"

AltitudeCommand == "move_to_altitude"

\* Lines 344-347: the position madaraSetNewTarget writes to
\* MV_MOVEMENT_TARGET_LAT and MV_MOVEMENT_TARGET_LON for the waypoint t.
MovementTargetSwapped(t) == Pos(Lon(t), Lat(t))

MovementTargetOf(t) == Pos(Lat(t), Lon(t))

\* Largest number of algorithm objects the runs let one process hold
\* allocated at a time.
MaxInstances == 2

\* new SnakeAreaCoverage(), line 273, and new RandomAreaCoverage(), line
\* 382: the number of objects allocated and not deleted, after the call.
AfterNew(live) == live + 1

\* delete m_coverageAlgorithm, lines 108 and 381, for the object alg the
\* pointer refers to: the null pointer frees nothing, and an object that was
\* deleted already is not allocated any more.
AfterDelete(live, alg) ==
    IF alg = NullAlgorithm THEN live
    ELSE IF alg.deletes > 0 THEN live
    ELSE live - 1

\* One evaluation of area_coverage_doAreaCoverage by drone e, lines 126-145.
\* Both blocks are under the implication of line 127: with
\* MV_AREA_COVERAGE_REQUESTED unset neither runs and the tick leaves the
\* knowledge as it was.  The first block (lines 129-137) sets a new target
\* when the cell is initialized; the second (lines 138-142) initializes
\* the cell when it is not, and does not run in a tick whose first block
\* ran.
doAreaCoverage(e) ==
    /\ IF CallsSetNewTarget(e)
       THEN \* madaraSetNewTarget, lines 327-351.
            LET alg == AfterGetNextTargetLocation(coverageAlgorithm[e])
                t   == TargetLocation(alg)
            IN /\ coverageAlgorithm' = [coverageAlgorithm EXCEPT ![e] = alg]
               /\ nextTarget' = [nextTarget EXCEPT ![e] = t]
               /\ movementTarget' = [movementTarget EXCEPT
                                        ![e].lat = Lat(MovementTargetOf(t)),
                                        ![e].lon = Lon(MovementTargetOf(t))]
               /\ movementRequested' = [movementRequested EXCEPT ![e] = "move_to_gps"]
               /\ UNCHANGED <<cellInitialized, availableTotal, availableMyIdx,
                              myCell, assignedAltitude, liveInstances>>
       ELSE IF CallsInitSearchCell(e)
       THEN LET r == madaraInitSearchCell(e)
            IN /\ liveInstances[e] < MaxInstances
               /\ liveInstances' = [liveInstances EXCEPT ![e] = AfterNew(@)]
               /\ availableTotal' = [availableTotal EXCEPT ![e] = r.total]
               /\ availableMyIdx' = [availableMyIdx EXCEPT ![e] = r.idx]
               /\ coverageAlgorithm' = [coverageAlgorithm EXCEPT ![e] = r.algorithm]
               /\ myCell' = [myCell EXCEPT ![e] = r.cell]
               /\ IF r.returns = 1
                  THEN \* madaraCalculateAndMoveToAltitude, then line 141.
                       /\ assignedAltitude' =
                              [assignedAltitude EXCEPT
                                  ![AltitudeRecordWritten(e, r.idx)] =
                                      myDefaultAltitude(r.idx)]
                       /\ movementTarget' =
                              [movementTarget EXCEPT ![e].alt = myDefaultAltitude(r.idx)]
                       /\ movementRequested' =
                              [movementRequested EXCEPT ![e] = AltitudeCommand]
                       /\ cellInitialized' = [cellInitialized EXCEPT ![e] = 1]
                  ELSE UNCHANGED <<assignedAltitude, movementTarget,
                                   movementRequested, cellInitialized>>
               /\ UNCHANGED nextTarget
       ELSE UNCHANGED <<cellInitialized, nextTarget, availableTotal, availableMyIdx,
                        myCell, movementRequested, movementTarget,
                        coverageAlgorithm, assignedAltitude, liveInstances>>
    /\ UNCHANGED <<controllerVars, totalDevices, mobile, busy, assignedSearchArea,
                   areaCoverageRequested, devicePos, searchRegion, minAltitude, areaCoverageHeightDiff,
                   reachedResult>>

----------------------------------------------------------------------------
(* The collaborators of the engine. *)

\* The algorithm names a request carries.  MV_AREA_COVERAGE_REQUESTED holds
\* the name; the model holds its position in this list, and 0 while the
\* variable is unset, so that a requested algorithm is a true value.
SearchAlgorithms == <<"snake", "random", "inside_out", "min_time">>

AlgorithmCode(name) ==
    CHOOSE k \in 1..Len(SearchAlgorithms) : SearchAlgorithms[k] = name

\* MadaraController::requestAreaCoverage, lines 170-196, for the drones ids.
requestAreaCoverage(ids, searchAreaId, searchAlgorithm) ==
    /\ assignedSearchArea' =
           [i \in Devices |-> IF i \in ids THEN searchAreaId ELSE assignedSearchArea[i]]
    /\ areaCoverageRequested' =
           [i \in Devices |-> IF i \in ids THEN AlgorithmCode(searchAlgorithm)
                                           ELSE areaCoverageRequested[i]]
    /\ UNCHANGED <<controllerVars, totalDevices, liveInstances, mobile, busy, devicePos, searchRegion, minAltitude, areaCoverageHeightDiff,
                   assignedAltitude, cellInitialized, nextTarget, availableTotal,
                   availableMyIdx, myCell, movementRequested, movementTarget,
                   coverageAlgorithm, reachedResult>>

\* Where a flying drone is found relative to the waypoint it was sent to:
\* within the reach tolerance on both axes, or at the tolerance in latitude.
FlyOffsets == { Pos(4, -4), Pos(5, 0) }

\* The flight-actuation collaborator: the drone, commanded to a GPS target,
\* moves and reports its position.
Fly(i) ==
    /\ movementRequested[i] = "move_to_gps"
    /\ \E off \in FlyOffsets :
           devicePos' = [devicePos EXCEPT
                            ![i] = Pos(movementTarget[i].lat + off[1],
                                       movementTarget[i].lon + off[2])]
    /\ UNCHANGED <<controllerVars, totalDevices, liveInstances, mobile, busy, assignedSearchArea,
                   areaCoverageRequested, searchRegion, minAltitude, areaCoverageHeightDiff,
                   assignedAltitude, cellInitialized, nextTarget, availableTotal,
                   availableMyIdx, myCell, movementRequested, movementTarget,
                   coverageAlgorithm, reachedResult>>

Init ==
    /\ \E r \in Regions : InitKnowledge(NumDrones, r)
    /\ InitEngines(0..(NumDrones - 1))

Next ==
    \/ \E i \in Devices : ReplicateMobile(i)
    \/ \E i \in Devices : ReplicateBusy(i)
    \/ \E ids \in (SUBSET Devices) \ {{}}, a \in Areas :
           requestAreaCoverage(ids, a, "snake")
    \/ \E i \in Devices : Fly(i)
    \/ \E e \in Engines : doAreaCoverage(e)

Spec == Init /\ [][Next]_vars

\* The same engines on a snapshot that no longer changes: the flags, the
\* assignments and the requests are drawn once, then only the drones act.
InitStable ==
    /\ totalDevices = NumDrones
    /\ mobile \in [0..(NumDrones - 1) -> {0, 1}]
    /\ busy \in [0..(NumDrones - 1) -> {0, 1}]
    /\ assignedSearchArea \in [0..(NumDrones - 1) -> Areas]
    /\ areaCoverageRequested \in [0..(NumDrones - 1) -> {0, 1}]
    /\ devicePos = [i \in 0..(NumDrones - 1) |-> Pos(0, 0)]
    /\ \E r \in Regions :
           searchRegion = [a \in Areas |-> IF a = 0 THEN r ELSE DefaultRegion]
    /\ minAltitude \in MinAltitudes
    /\ areaCoverageHeightDiff \in HeightDiffs
    /\ assignedAltitude = [i \in 0..(NumDrones - 1) |-> 0]
    /\ InitController
    /\ InitEngines(0..(NumDrones - 1))

NextStable ==
    \/ \E i \in Devices : Fly(i)
    \/ \E e \in Engines : doAreaCoverage(e)

SpecStable == InitStable /\ [][NextStable]_vars

----------------------------------------------------------------------------
(* area_coverage_checkTargetReached on its own: the position and the       *)
(* target are drawn once, then the function is applied.                    *)

\* Largest distance, on either axis, between the position and the target.
MaxOffset == 6

\* The targets the runs draw from.
ReachTargets == { Pos(0, 0), Pos(-60, 30) }

checkTargetReached(e) ==
    /\ reachedResult' =
           [reachedResult EXCEPT
               ![e] = madaraTargetReached(Lat(devicePos[e]), Lat(nextTarget[e]),
                                          Lon(devicePos[e]), Lon(nextTarget[e]))]
    /\ UNCHANGED <<controllerVars, totalDevices, liveInstances, mobile, busy, assignedSearchArea,
                   areaCoverageRequested, devicePos, searchRegion, minAltitude, areaCoverageHeightDiff,
                   assignedAltitude, cellInitialized, nextTarget, availableTotal,
                   availableMyIdx, myCell, movementRequested, movementTarget,
                   coverageAlgorithm>>

InitReached ==
    /\ totalDevices = 1
    /\ mobile = [i \in {0} |-> 0]
    /\ busy = [i \in {0} |-> 0]
    /\ assignedSearchArea = [i \in {0} |-> 0]
    /\ areaCoverageRequested = [i \in {0} |-> 0]
    /\ searchRegion = [a \in Areas |-> DefaultRegion]
    /\ minAltitude \in MinAltitudes
    /\ areaCoverageHeightDiff \in HeightDiffs
    /\ assignedAltitude = [i \in {0} |-> 0]
    /\ cellInitialized = [e \in {0} |-> 0]
    /\ availableTotal = [e \in {0} |-> 0]
    /\ availableMyIdx = [e \in {0} |-> 0]
    /\ myCell = [e \in {0} |-> NoCell]
    /\ movementRequested = [e \in {0} |-> "none"]
    /\ movementTarget = [e \in {0} |-> [lat |-> 0, lon |-> 0, alt |-> 0]]
    /\ coverageAlgorithm = [e \in {0} |-> NullAlgorithm]
    /\ liveInstances = [e \in {0} |-> 0]
    /\ reachedResult = [e \in {0} |-> -1]
    /\ InitController
    /\ \E t \in ReachTargets, dx \in (-MaxOffset)..MaxOffset,
          dy \in (-MaxOffset)..MaxOffset :
           /\ nextTarget = [e \in {0} |-> t]
           /\ devicePos = [i \in {0} |-> Pos(Lat(t) + dx, Lon(t) + dy)]

NextReached == \E e \in Engines : checkTargetReached(e)

SpecReached == InitReached /\ [][NextReached]_vars

\* One drone and a controller that requests any of the algorithms.
InitRequest ==
    /\ \E r \in Regions : InitKnowledge(1, r)
    /\ InitEngines({0})

NextRequest ==
    \/ \E i \in Devices : ReplicateMobile(i)
    \/ \E a \in Areas, k \in 1..Len(SearchAlgorithms) :
           requestAreaCoverage({0}, a, SearchAlgorithms[k])
    \/ \E i \in Devices : Fly(i)
    \/ \E e \in Engines : doAreaCoverage(e)

SpecRequest == InitRequest /\ [][NextRequest]_vars

\* The regions registered for search area 0 in the runs of one engine: one
\* that can be cut in cells, and one without height, for which no cell can
\* be computed.
OneEngineRegions ==
    { Region(Pos(60, 0), Pos(0, 30)),
      Region(Pos(0, 0), Pos(-60, 0)) }

\* One engine, of the first or of the last drone, in a swarm of NumDrones
\* devices: the other devices are known through replication, and the
\* controller requests coverage from the drone of the engine.
InitOneEngine ==
    /\ \E r \in OneEngineRegions : InitKnowledge(NumDrones, r)
    /\ \E self \in {0, NumDrones - 1} : InitEngines({self})

NextOneEngine ==
    \/ \E i \in Devices : ReplicateMobile(i)
    \/ \E i \in Devices : ReplicateBusy(i)
    \/ \E i \in Devices, a \in Areas : ReplicateAssignedSearchArea(i, a)
    \/ \E e \in Engines, a \in Areas : requestAreaCoverage({e}, a, "snake")
    \/ \E e \in Engines : Fly(e)
    \/ \E e \in Engines : doAreaCoverage(e)

SpecOneEngine == InitOneEngine /\ [][NextOneEngine]_vars

----------------------------------------------------------------------------
(* The life cycle of the module: initialize, ticks and cleanup called in    *)
(* any order on the engine of one drone.                                    *)

\* Largest number of times cleanup is followed on one object.
MaxDeletes == 2

\* SMASH::AreaCoverage::initialize, lines 93-100: the functions are defined
\* and the expression is compiled again; no knowledge variable is written
\* and m_coverageAlgorithm is left as it is.
initialize(e) ==
    /\ e \in Engines
    /\ UNCHANGED vars

\* What the memory of a deleted object may hold afterwards, as far as the
\* number of waypoints produced goes: what it held, or 0.
FreedContents(alg) == {alg.emitted, 0}

\* delete m_coverageAlgorithm, line 108, keeping the pointer.
DeleteKeepingPointer(alg, contents) ==
    [alg EXCEPT !.deletes = @ + 1, !.emitted = contents]

\* SMASH::AreaCoverage::cleanup, lines 105-109.  Deleting the null pointer
\* does nothing; otherwise the object is deleted and the pointer keeps
\* referring to it.  No knowledge variable is written.
cleanup(e) ==
    /\ IF coverageAlgorithm[e] = NullAlgorithm
       THEN UNCHANGED coverageAlgorithm
       ELSE /\ coverageAlgorithm[e].deletes < MaxDeletes
            /\ \E contents \in FreedContents(coverageAlgorithm[e]) :
                   coverageAlgorithm' =
                       [coverageAlgorithm EXCEPT
                           ![e] = DeleteKeepingPointer(@, contents)]
    /\ liveInstances' =
           [liveInstances EXCEPT ![e] = AfterDelete(@, coverageAlgorithm[e])]
    /\ UNCHANGED <<controllerVars, totalDevices, mobile, busy, assignedSearchArea,
                   areaCoverageRequested, devicePos, searchRegion, minAltitude,
                   areaCoverageHeightDiff, assignedAltitude, cellInitialized,
                   nextTarget, availableTotal, availableMyIdx, myCell,
                   movementRequested, movementTarget, reachedResult>>

InitLifecycle ==
    /\ \E r \in OneEngineRegions : InitKnowledge(1, r)
    /\ InitEngines({0})

NextLifecycle ==
    \/ \E i \in Devices : ReplicateMobile(i)
    \/ \E e \in Engines, a \in Areas : requestAreaCoverage({e}, a, "snake")
    \/ \E e \in Engines : Fly(e)
    \/ \E e \in Engines : initialize(e)
    \/ \E e \in Engines : doAreaCoverage(e)
    \/ \E e \in Engines : cleanup(e)

SpecLifecycle == InitLifecycle /\ [][NextLifecycle]_vars

----------------------------------------------------------------------------
(* area_coverage_setNewCoverage on its own: the function is evaluated on    *)
(* the engine of one drone while the snapshot changes.                      *)

\* new RandomAreaCoverage() followed by initialize(idx, searchArea, n).
\* RandomAreaCoverage.cpp is not among the sources; by section 4.4 of the
\* specification the pattern draws its waypoints from the whole search
\* area, whatever the index and the number of drones.
RandomInitialize(idx, searchArea, n) ==
    [kind |-> "random", hasCell |-> TRUE, cell |-> searchArea, rank |-> idx,
     emitted |-> 0, deletes |-> 0]

\* Lines 384-387: the four corner variables stored for the search area.
CellStoredBySetNewCoverage(searchArea) ==
    Region(Pos(searchArea.topLeft[1], searchArea.topLeft[2]),
           Pos(searchArea.topLeft[1], searchArea.topLeft[2]))

\* madaraSetNewCoverage, lines 358-390: the scan, the region of the drone's
\* area, the pattern replaced by a random one, and the cell stored.
setNewCoverage(e) ==
    /\ AfterDelete(liveInstances[e], coverageAlgorithm[e]) < MaxInstances
    /\ liveInstances' =
           [liveInstances EXCEPT
               ![e] = AfterNew(AfterDelete(@, coverageAlgorithm[e]))]
    /\ LET scan == UpdateAvailableDrones(e, availableTotal[e], availableMyIdx[e])
           area == searchRegion[assignedSearchArea[e]]
       IN /\ availableTotal' = [availableTotal EXCEPT ![e] = scan[1]]
          /\ availableMyIdx' = [availableMyIdx EXCEPT ![e] = scan[2]]
          /\ coverageAlgorithm' =
                 [coverageAlgorithm EXCEPT
                     ![e] = RandomInitialize(scan[2], area, scan[1])]
          /\ myCell' = [myCell EXCEPT ![e] = CellStoredBySetNewCoverage(area)]
    /\ UNCHANGED <<controllerVars, totalDevices, mobile, busy, assignedSearchArea,
                   areaCoverageRequested, devicePos, searchRegion, minAltitude,
                   areaCoverageHeightDiff, assignedAltitude, cellInitialized,
                   nextTarget, movementRequested, movementTarget, reachedResult>>

InitCoverage ==
    /\ \E r \in Regions : InitKnowledge(NumDrones, r)
    /\ \E self \in 0..(NumDrones - 1) : InitEngines({self})

NextCoverage ==
    \/ \E i \in Devices : ReplicateMobile(i)
    \/ \E i \in Devices : ReplicateBusy(i)
    \/ \E i \in Devices, a \in Areas : ReplicateAssignedSearchArea(i, a)
    \/ \E e \in Engines : setNewCoverage(e)

SpecCoverage == InitCoverage /\ [][NextCoverage]_vars

\* The ticks of one drone and area_coverage_setNewCoverage evaluated in any
\* order, on regions that give a cell and regions that give none.
InitInstances ==
    /\ \E r \in OneEngineRegions : InitKnowledge(1, r)
    /\ InitEngines({0})

NextInstances ==
    \/ \E i \in Devices : ReplicateMobile(i)
    \/ \E e \in Engines, a \in Areas : requestAreaCoverage({e}, a, "snake")
    \/ \E e \in Engines : Fly(e)
    \/ \E e \in Engines : doAreaCoverage(e)
    \/ \E e \in Engines : setNewCoverage(e)

SpecInstances == InitInstances /\ [][NextInstances]_vars

----------------------------------------------------------------------------
(* area_coverage_setNewTarget on its own: a drone whose cell was            *)
(* initialized for one of two peers asks the pattern for its waypoints.     *)

\* The heights of the cells the runs draw from (micro-degrees): one row,
\* rows with a remainder, and 10 line widths, the cell of the scenario of
\* section 8 (((0,0),(2,10)) with line width 1) in units of 1/30 line width.
SnakeCellHeights == {30, 45, 100, 150, 200, 300}

\* madaraSetNewTarget, lines 327-351.
setNewTarget(e) ==
    /\ coverageAlgorithm[e].kind # "null"
    /\ LET alg == AfterGetNextTargetLocation(coverageAlgorithm[e])
           t   == TargetLocation(alg)
       IN /\ coverageAlgorithm' = [coverageAlgorithm EXCEPT ![e] = alg]
          /\ nextTarget' = [nextTarget EXCEPT ![e] = t]
          /\ movementTarget' = [movementTarget EXCEPT
                                   ![e].lat = Lat(MovementTargetOf(t)),
                                   ![e].lon = Lon(MovementTargetOf(t))]
          /\ movementRequested' = [movementRequested EXCEPT ![e] = "move_to_gps"]
    /\ UNCHANGED <<controllerVars, totalDevices, liveInstances, mobile, busy, assignedSearchArea,
                   areaCoverageRequested, devicePos, searchRegion, minAltitude,
                   areaCoverageHeightDiff, assignedAltitude, cellInitialized,
                   availableTotal, availableMyIdx, myCell, reachedResult>>

\* The state drone self is in after the tick that initialized its cell, both
\* drones being available for area 0, whose region is two cells high.
InitSnake ==
    \E self \in 0..1, h \in SnakeCellHeights :
        LET region == Region(Pos(0, 0), Pos(60, 2 * h))
            alg    == SnakeInitialize(self, region, 2)
        IN /\ totalDevices = 2
           /\ mobile = [i \in 0..1 |-> 1]
           /\ busy = [i \in 0..1 |-> 0]
           /\ assignedSearchArea = [i \in 0..1 |-> 0]
           /\ areaCoverageRequested = [i \in 0..1 |-> AlgorithmCode("snake")]
           /\ devicePos = [i \in 0..1 |-> Pos(0, 0)]
           /\ searchRegion = [a \in Areas |-> region]
           /\ minAltitude \in MinAltitudes
           /\ areaCoverageHeightDiff \in HeightDiffs
           /\ assignedAltitude =
                  [i \in 0..1 |-> IF i = self THEN myDefaultAltitude(self) ELSE 0]
           /\ cellInitialized = [e \in {self} |-> 1]
           /\ nextTarget = [e \in {self} |-> Pos(0, 0)]
           /\ availableTotal = [e \in {self} |-> 2]
           /\ availableMyIdx = [e \in {self} |-> self]
           /\ myCell = [e \in {self} |-> alg.cell]
           /\ movementRequested = [e \in {self} |-> "move_to_altitude"]
           /\ movementTarget =
                  [e \in {self} |-> [lat |-> 0, lon |-> 0,
                                      alt |-> myDefaultAltitude(self)]]
           /\ coverageAlgorithm = [e \in {self} |-> alg]
           /\ liveInstances = [e \in {self} |-> 1]
           /\ reachedResult = [e \in {self} |-> -1]
           /\ InitController

NextSnake == \E e \in Engines : setNewTarget(e)

SpecSnake == InitSnake /\ [][NextSnake]_vars

----------------------------------------------------------------------------
(* area_coverage_calcAndMoveToAlt on its own: the mission parameters and    *)
(* the index of each engine are drawn once, then the function is applied.   *)

\* Largest index an engine holds in MV_AVAILABLE_DRONES_MY_IDX.
MaxRank == 3

\* The minimum altitudes and the height differences the controller
\* configures (updateGeneralParameters), in decimetres.
AltitudeFloors == {0, 20, 35}

ConfiguredHeightDiffs == {5, 10}

\* madaraCalculateAndMoveToAltitude, lines 300-318.
calcAndMoveToAlt(e) ==
    /\ assignedAltitude' =
           [assignedAltitude EXCEPT
               ![AltitudeRecordWritten(e, availableMyIdx[e])] =
                   myDefaultAltitude(availableMyIdx[e])]
    /\ movementTarget' =
           [movementTarget EXCEPT ![e].alt = myDefaultAltitude(availableMyIdx[e])]
    /\ movementRequested' = [movementRequested EXCEPT ![e] = AltitudeCommand]
    /\ UNCHANGED <<controllerVars, totalDevices, liveInstances, mobile, busy, assignedSearchArea,
                   areaCoverageRequested, devicePos, searchRegion, minAltitude,
                   areaCoverageHeightDiff, cellInitialized, nextTarget,
                   availableTotal, availableMyIdx, myCell, coverageAlgorithm,
                   reachedResult>>

InitAltitude ==
    /\ totalDevices = NumDrones
    /\ mobile = [i \in 0..(NumDrones - 1) |-> 1]
    /\ busy = [i \in 0..(NumDrones - 1) |-> 0]
    /\ assignedSearchArea = [i \in 0..(NumDrones - 1) |-> 0]
    /\ areaCoverageRequested = [i \in 0..(NumDrones - 1) |-> 0]
    /\ devicePos = [i \in 0..(NumDrones - 1) |-> Pos(0, 0)]
    /\ searchRegion = [a \in Areas |-> DefaultRegion]
    /\ minAltitude \in AltitudeFloors
    /\ areaCoverageHeightDiff \in ConfiguredHeightDiffs
    /\ assignedAltitude = [i \in 0..(NumDrones - 1) |-> 0]
    /\ cellInitialized = [e \in 0..(NumDrones - 1) |-> 0]
    /\ nextTarget = [e \in 0..(NumDrones - 1) |-> Pos(0, 0)]
    /\ availableTotal = [e \in 0..(NumDrones - 1) |-> 0]
    /\ availableMyIdx \in [0..(NumDrones - 1) -> 0..MaxRank]
    /\ myCell = [e \in 0..(NumDrones - 1) |-> NoCell]
    /\ movementRequested = [e \in 0..(NumDrones - 1) |-> "none"]
    /\ movementTarget = [e \in 0..(NumDrones - 1) |-> [lat |-> 0, lon |-> 0, alt |-> 0]]
    /\ coverageAlgorithm = [e \in 0..(NumDrones - 1) |-> NullAlgorithm]
    /\ liveInstances = [e \in 0..(NumDrones - 1) |-> 0]
    /\ reachedResult = [e \in 0..(NumDrones - 1) |-> -1]
    /\ InitController

NextAltitude == \E e \in Engines : calcAndMoveToAlt(e)

SpecAltitude == InitAltitude /\ [][NextAltitude]_vars

----------------------------------------------------------------------------
(* The system controller, MadaraSystemController.cpp.  Its knowledge base    *)
(* maps a variable, named by a macro and the id the macro is applied to (0   *)
(* when it has none), to the value last set.  A set made with                *)
(* Eval_Settings(true) delays the sending: the variable is listed as         *)
(* modified and nothing is sent.  A set made without settings, and           *)
(* send_modifieds, send one packet with the current value of every variable  *)
(* listed, and empty the list.                                               *)

\* Largest number of packets the runs let the controller send.
MaxBatches == 3

\* Largest bridge id.
MaxBridge == 1

Bridges == 0..MaxBridge

\* One call m_knowledge->set(name(index), value, settings).
Write(name, index, value, delay) ==
    [key |-> <<name, index>>, value |-> value, delay |-> delay]

\* The knowledge base kb after value was stored under key.
Stored(kb, key, value) ==
    [k \in (DOMAIN kb) \cup {key} |-> IF k = key THEN value ELSE kb[k]]

\* The list of modified variables after key was modified.
Marked(mods, key) ==
    IF \E n \in 1..Len(mods) : mods[n] = key THEN mods ELSE Append(mods, key)

\* The packet sent for the list mods: each variable with its current value.
Packet(kb, mods) ==
    [n \in 1..Len(mods) |-> [key |-> mods[n], value |-> kb[mods[n]]]]

\* The controller as the calls below see it.
Controller == [kb |-> m_knowledge, mods |-> modifieds, sent |-> disseminated]

\* m_knowledge->send_modifieds().
AfterSendModifieds(c) ==
    IF Len(c.mods) = 0 THEN c
    ELSE [kb |-> c.kb, mods |-> <<>>, sent |-> Append(c.sent, Packet(c.kb, c.mods))]

\* m_knowledge->set(...), for the call w.
AfterSet(c, w) ==
    LET written == [kb |-> Stored(c.kb, w.key, w.value),
                    mods |-> Marked(c.mods, w.key),
                    sent |-> c.sent]
    IN IF w.delay THEN written ELSE AfterSendModifieds(written)

\* The calls of the sequence writes, made in order.
RECURSIVE AfterSets(_, _)
AfterSets(c, writes) ==
    IF Len(writes) = 0 THEN c
    ELSE AfterSets(AfterSet(c, Head(writes)), Tail(writes))

\* m_regionId++, lines 128, 147 and 204: the counter after an id was taken.
RegionIdKept(id) == id

RegionIdAfterTaking(id) == id + 1

\* The bounding boxes the operator draws (micro-degrees).
ControllerRegions ==
    { Region(Pos(0, 0), Pos(-60, 30)),
      Region(Pos(160, 100), Pos(100, 130)) }

\* MadaraController::setNewSearchArea, lines 201-226.
setNewSearchArea(searchAreaId, areaBoundaries) ==
    /\ Len(disseminated) < MaxBatches
    /\ LET searchAreaRegionId == m_regionId
           totalAreas == searchAreaId + 1
           c == AfterSendModifieds(AfterSets(Controller,
                    << Write("MV_SEARCH_AREA_REGION", searchAreaId,
                             searchAreaRegionId, TRUE),
                       Write("MV_TOTAL_SEARCH_AREAS", 0, totalAreas, TRUE),
                       Write("MV_REGION_TYPE", searchAreaRegionId, 0, TRUE),
                       Write("MV_REGION_TOPLEFT_LOC", searchAreaRegionId,
                             areaBoundaries.topLeft, TRUE),
                       Write("MV_REGION_BOTRIGHT_LOC", searchAreaRegionId,
                             areaBoundaries.bottomRight, TRUE) >>))
       IN /\ m_regionId' = RegionIdAfterTaking(m_regionId)
          /\ m_knowledge' = c.kb
          /\ modifieds' = c.mods
          /\ disseminated' = c.sent
    /\ UNCHANGED <<currentThermals, totalDevices, liveInstances, mobile, busy, assignedSearchArea,
                   areaCoverageRequested, devicePos, searchRegion, minAltitude,
                   areaCoverageHeightDiff, assignedAltitude, cellInitialized,
                   nextTarget, availableTotal, availableMyIdx, myCell,
                   movementRequested, movementTarget, coverageAlgorithm,
                   reachedResult>>

\* MadaraController::setupBridgeRequest, lines 117-165.
setupBridgeRequest(bridgeId, startRegion, endRegion) ==
    /\ Len(disseminated) < MaxBatches
    /\ LET totalBridges == bridgeId + 1
           sourceRegionId == m_regionId
           sinkRegionId == RegionIdAfterTaking(sourceRegionId)
           c == AfterSets(Controller,
                    << Write("MV_TOTAL_BRIDGES", 0, totalBridges, TRUE),
                       Write("MV_BRIDGE_SOURCE_REGION_ID", bridgeId,
                             sourceRegionId, TRUE),
                       Write("MV_REGION_TYPE", sourceRegionId, 0, TRUE),
                       Write("MV_REGION_TOPLEFT_LOC", sourceRegionId,
                             startRegion.topLeft, TRUE),
                       Write("MV_REGION_BOTRIGHT_LOC", sourceRegionId,
                             startRegion.bottomRight, TRUE),
                       Write("MV_BRIDGE_SINK_REGION_ID", bridgeId,
                             sinkRegionId, TRUE),
                       Write("MV_REGION_TYPE", sinkRegionId, 0, TRUE),
                       Write("MV_REGION_TOPLEFT_LOC", sinkRegionId,
                             endRegion.topLeft, TRUE),
                       Write("MV_REGION_BOTRIGHT_LOC", sinkRegionId,
                             endRegion.bottomRight, TRUE),
                       Write("MV_BRIDGE_REQUESTED", 0, 1, FALSE) >>)
       IN /\ m_regionId' = RegionIdAfterTaking(sinkRegionId)
          /\ m_knowledge' = c.kb
          /\ modifieds' = c.mods
          /\ disseminated' = c.sent
    /\ UNCHANGED <<currentThermals, totalDevices, liveInstances, mobile, busy, assignedSearchArea,
                   areaCoverageRequested, devicePos, searchRegion, minAltitude,
                   areaCoverageHeightDiff, assignedAltitude, cellInitialized,
                   nextTarget, availableTotal, availableMyIdx, myCell,
                   movementRequested, movementTarget, coverageAlgorithm,
                   reachedResult>>

\* The controller on its own, registering search areas and bridges.
InitRegions ==
    /\ InitKnowledge(1, DefaultRegion)
    /\ InitEngines({0})

NextRegions ==
    \/ \E a \in Areas, r \in ControllerRegions : setNewSearchArea(a, r)
    \/ \E b \in Bridges, r1, r2 \in ControllerRegions :
           r1 # r2 /\ setupBridgeRequest(b, r1, r2)

SpecRegions == InitRegions /\ [][NextRegions]_vars

\* The same calls made without settings: each one sends at once.
RequestWritesSentAtOnce(droneId, searchAreaId, searchAlgorithm, wait, lineWidth, humanDetectionAlgorithm) ==
    << Write("MV_ASSIGNED_SEARCH_AREA", droneId, searchAreaId, FALSE),
       Write("MV_AREA_COVERAGE_REQUESTED", droneId, searchAlgorithm, FALSE),
       Write("MV_SEARCH_WAIT", 0, wait, FALSE),
       Write("MV_AREA_COVERAGE_LINE_WIDTH", 0, lineWidth, FALSE),
       Write("MV_HUMAN_DETECTION_REQUESTED", droneId, humanDetectionAlgorithm,
             FALSE) >>

\* The calls of one pass of the loop of requestAreaCoverage, lines 178-191,
\* for the drone droneId: every one with Eval_Settings(true).  MV_SEARCH_WAIT
\* and MV_AREA_COVERAGE_LINE_WIDTH are not indexed by a drone.
RequestWrites(droneId, searchAreaId, searchAlgorithm, wait, lineWidth, humanDetectionAlgorithm) ==
    << Write("MV_ASSIGNED_SEARCH_AREA", droneId, searchAreaId, TRUE),
       Write("MV_AREA_COVERAGE_REQUESTED", droneId, searchAlgorithm, TRUE),
       Write("MV_SEARCH_WAIT", 0, wait, TRUE),
       Write("MV_AREA_COVERAGE_LINE_WIDTH", 0, lineWidth, TRUE),
       Write("MV_HUMAN_DETECTION_REQUESTED", droneId, humanDetectionAlgorithm,
             TRUE) >>

\* The loop of lines 176-192 over droneIds, from the controller c.
RECURSIVE AfterRequestLoop(_, _, _, _, _, _, _)
AfterRequestLoop(c, droneIds, searchAreaId, searchAlgorithm, wait, lineWidth, humanDetectionAlgorithm) ==
    IF Len(droneIds) = 0 THEN c
    ELSE AfterRequestLoop(
             AfterSets(c, RequestWrites(Head(droneIds), searchAreaId,
                                        searchAlgorithm, wait, lineWidth,
                                        humanDetectionAlgorithm)),
             Tail(droneIds), searchAreaId, searchAlgorithm, wait, lineWidth,
             humanDetectionAlgorithm)

\* MadaraController::requestAreaCoverage, lines 170-196, on the controller's
\* knowledge base: the loop, then send_modifieds.
requestAreaCoverageBatch(droneIds, searchAreaId, searchAlgorithm, wait, lineWidth, humanDetectionAlgorithm) ==
    /\ Len(disseminated) < MaxBatches
    /\ LET c == AfterSendModifieds(
                    AfterRequestLoop(Controller, droneIds, searchAreaId,
                                     searchAlgorithm, wait, lineWidth,
                                     humanDetectionAlgorithm))
       IN /\ m_knowledge' = c.kb
          /\ modifieds' = c.mods
          /\ disseminated' = c.sent
    /\ UNCHANGED <<m_regionId, currentThermals, totalDevices, liveInstances, mobile, busy, assignedSearchArea,
                   areaCoverageRequested, devicePos, searchRegion, minAltitude,
                   areaCoverageHeightDiff, assignedAltitude, cellInitialized,
                   nextTarget, availableTotal, availableMyIdx, myCell,
                   movementRequested, movementTarget, coverageAlgorithm,
                   reachedResult>>

\* The value the packet p carries for key, and whether it carries one.
InPacket(p, key) == \E n \in 1..Len(p) : p[n].key = key

PacketValue(p, key) == p[CHOOSE n \in 1..Len(p) : p[n].key = key].value

\* The transport collaborator: the packet the controller sent last arrives
\* and is applied whole to the drones' copy of the knowledge base.
ReceiveBatch ==
    /\ Len(disseminated) > 0
    /\ LET p == disseminated[Len(disseminated)]
       IN /\ assignedSearchArea' =
                 [i \in Devices |->
                     IF InPacket(p, <<"MV_ASSIGNED_SEARCH_AREA", i>>)
                     THEN PacketValue(p, <<"MV_ASSIGNED_SEARCH_AREA", i>>)
                     ELSE assignedSearchArea[i]]
          /\ areaCoverageRequested' =
                 [i \in Devices |->
                     IF InPacket(p, <<"MV_AREA_COVERAGE_REQUESTED", i>>)
                     THEN AlgorithmCode(
                              PacketValue(p, <<"MV_AREA_COVERAGE_REQUESTED", i>>))
                     ELSE areaCoverageRequested[i]]
    /\ UNCHANGED <<controllerVars, totalDevices, liveInstances, mobile, busy, devicePos,
                   searchRegion, minAltitude, areaCoverageHeightDiff,
                   assignedAltitude, cellInitialized, nextTarget, availableTotal,
                   availableMyIdx, myCell, movementRequested, movementTarget,
                   coverageAlgorithm, reachedResult>>

\* The lists of drones a request names: one drone, or two in either order.
DroneIdLists ==
    { <<d>> : d \in Devices } \cup { <<d1, d2>> : d1, d2 \in Devices }

\* The values the operator picks for a request.
RequestedAlgorithms == {"snake", "random"}

SearchWaits == {1}

LineWidths == {2}

HumanDetectionAlgorithms == {"basic"}

\* The controller requesting area coverage, and the drones receiving it.
InitBatch ==
    /\ InitKnowledge(NumDrones, DefaultRegion)
    /\ InitEngines({0})

NextBatch ==
    \/ \E droneIds \in DroneIdLists, a \in Areas, g \in RequestedAlgorithms,
          w \in SearchWaits, lw \in LineWidths, h \in HumanDetectionAlgorithms :
           requestAreaCoverageBatch(droneIds, a, g, w, lw, h)
    \/ ReceiveBatch

SpecBatch == InitBatch /\ [][NextBatch]_vars

\* The thermal locations.  A drone that finds a thermal publishes a variable
\* named location_<lat>_<lon>; the controller reads the coordinates back from
\* the names.  A name is the sequence of its characters.

\* Largest number of named variables the runs put in the knowledge base.
MaxThermals == 2

\* The characters of the names, in the order of their codes.
Alphabet ==
    << "0", "1", "2", "3", "4", "5", "6", "7", "8", "9", "_",
       "a", "c", "d", "e", "i", "l", "n", "o", "t", "v" >>

CharCode(c) == CHOOSE k \in 1..Len(Alphabet) : Alphabet[k] = c

IsDigit(c) == CharCode(c) <= CharCode("9")

\* The decimal digits of the natural number n.
RECURSIVE Digits(_)
Digits(n) ==
    IF n < 10 THEN << Alphabet[n + 1] >>
    ELSE Digits(n \div 10) \o << Alphabet[(n % 10) + 1] >>

LocationPrefix == << "l", "o", "c", "a", "t", "i", "o", "n", "_" >>

\* The name location_<lat>_<lon>.
LocationName(lat, lon) == LocationPrefix \o Digits(lat) \o << "_" >> \o Digits(lon)

\* The coordinates of the thermals found.
ThermalCoordinates == {1, 2, 12}

\* The names the runs use: a location for every pair of coordinates, a
\* location name of two parts, one of four parts, and a name of three parts
\* that is not a location.
VariableNames ==
    { LocationName(lat, lon) : lat, lon \in ThermalCoordinates }
        \cup { LocationPrefix \o << "1" >>,
               LocationName(1, 2) \o << "_", "1", "2" >>,
               << "d", "e", "v", "i", "c", "e", "_", "1", "_", "2" >> }

\* A variable with a free name in the knowledge base.
NamedKey(name) == << name, 0 >>

\* The replication collaborator: a variable named name arrives from a drone.
ReplicateNamed(name) ==
    /\ NamedKey(name) \notin DOMAIN m_knowledge
    /\ Cardinality(DOMAIN m_knowledge) < MaxThermals
    /\ m_knowledge' = Stored(m_knowledge, NamedKey(name), 1)
    /\ UNCHANGED <<m_regionId, modifieds, disseminated, currentThermals,
                   totalDevices, liveInstances, mobile, busy, assignedSearchArea,
                   areaCoverageRequested, devicePos, searchRegion, minAltitude,
                   areaCoverageHeightDiff, assignedAltitude, cellInitialized,
                   nextTarget, availableTotal, availableMyIdx, myCell,
                   movementRequested, movementTarget, coverageAlgorithm,
                   reachedResult>>

\* std::string order: the first is less than the second.
RECURSIVE NameLess(_, _)
NameLess(a, b) ==
    IF Len(b) = 0 THEN FALSE
    ELSE IF Len(a) = 0 THEN TRUE
    ELSE IF Head(a) # Head(b) THEN CharCode(Head(a)) < CharCode(Head(b))
    ELSE NameLess(Tail(a), Tail(b))

\* The names of S in the order a std::map iterates them.
RECURSIVE InMapOrder(_)
InMapOrder(S) ==
    IF S = {} THEN << >>
    ELSE LET first == CHOOSE a \in S : \A b \in S \ {a} : NameLess(a, b)
         IN << first >> \o InMapOrder(S \ {first})

\* m_knowledge->to_map("location_*", thermalLocations), line 258: the names
\* of the variables of kb that begin with location_.
ThermalLocations(kb) ==
    InMapOrder({ key[1] : key \in { k \in DOMAIN kb :
                     /\ Len(k[1]) >= Len(LocationPrefix)
                     /\ SubSeq(k[1], 1, Len(LocationPrefix)) = LocationPrefix } })

\* stringSplit(str, delim): the parts of str between the delimiters.
RECURSIVE SplitInto(_, _, _, _)
SplitInto(str, delim, part, parts) ==
    IF Len(str) = 0 THEN Append(parts, part)
    ELSE IF Head(str) = delim
         THEN SplitInto(Tail(str), delim, << >>, Append(parts, part))
         ELSE SplitInto(Tail(str), delim, Append(part, Head(str)), parts)

stringSplit(str, delim) == SplitInto(str, delim, << >>, << >>)

\* atof(str) for the names of the runs: the number its leading digits
\* write, 0 when it has none.
RECURSIVE AtofFrom(_, _)
AtofFrom(str, value) ==
    IF Len(str) = 0 \/ ~IsDigit(Head(str)) THEN value
    ELSE AtofFrom(Tail(str), value * 10 + (CharCode(Head(str)) - 1))

atof(str) == AtofFrom(str, 0)

\* The values a double can hold that was declared and never assigned.
IndeterminateDoubles == {0} \cup ThermalCoordinates

\* Lines 271-273: currThermal is declared, its latitude is assigned from
\* part 1 and assigned again from part 2; its longitude is never assigned
\* and holds whatever the declaration left, here indeterminate.
CurrThermal(variableParts, indeterminate) ==
    LET declared == [latitude |-> indeterminate, longitude |-> indeterminate]
        first == [declared EXCEPT !.latitude = atof(variableParts[2])]
        second == [first EXCEPT !.latitude = atof(variableParts[3])]
    IN Pos(second.latitude, second.longitude)

\* The loop of lines 262-276 from the k-th name on; indeterminate[k] is what
\* the k-th declaration left.
RECURSIVE TransferLocations(_, _, _)
TransferLocations(names, k, indeterminate) ==
    IF k > Len(names) THEN << >>
    ELSE LET variableParts == stringSplit(names[k], "_")
             rest == TransferLocations(names, k + 1, indeterminate)
         IN IF Len(variableParts) >= 3
            THEN << CurrThermal(variableParts, indeterminate[k]) >> \o rest
            ELSE rest

\* MadaraController::getCurrentThermals, lines 252-279.
getCurrentThermals ==
    /\ LET thermalLocations == ThermalLocations(m_knowledge)
       IN \E indeterminate \in [1..Len(thermalLocations) -> IndeterminateDoubles] :
              currentThermals' = TransferLocations(thermalLocations, 1, indeterminate)
    /\ UNCHANGED <<m_regionId, m_knowledge, modifieds, disseminated,
                   totalDevices, liveInstances, mobile, busy, assignedSearchArea,
                   areaCoverageRequested, devicePos, searchRegion, minAltitude,
                   areaCoverageHeightDiff, assignedAltitude, cellInitialized,
                   nextTarget, availableTotal, availableMyIdx, myCell,
                   movementRequested, movementTarget, coverageAlgorithm,
                   reachedResult>>

\* The controller reading the thermals while the drones publish them.
InitThermals ==
    /\ InitKnowledge(1, DefaultRegion)
    /\ InitEngines({0})

NextThermals ==
    \/ \E name \in VariableNames : ReplicateNamed(name)
    \/ getCurrentThermals

SpecThermals == InitThermals /\ [][NextThermals]_vars

----------------------------------------------------------------------------
(* Claims about the availability scan. *)

\* The ids the scan of drone self should count, as a set.
AvailableSet(self) ==
    { i \in Devices : mobile[i] = 1 /\ busy[i] = 0
                      /\ assignedSearchArea[i] = assignedSearchArea[self] }

\* The zero-based position of self in the ascending list of a set of ids.
PositionIn(self, S) == Cardinality({ i \in S : i < self })

\* C1: after a scan run by a drone that is itself mobile, not busy and
\* assigned to an area, the stored rank is the zero-based position of the
\* drone in the ascending-id list of the available drones of its area, and
\* so 0 <= rank < peerCount.
C1_RankIsPositionInAvailableList ==
    [][\A e \in Engines :
          (EvaluateFindAvailableDrones(e) /\ e \in AvailableSet(e))
              => /\ availableMyIdx'[e] = PositionIn(e, AvailableSet(e))
                 /\ availableMyIdx'[e] >= 0
                 /\ availableMyIdx'[e] < availableTotal'[e]]_vars

\* C4: the pair (rank, peerCount) a scan leaves is the pair the same scan
\* leaves on this snapshot in an engine that never scanned before: it does
\* not depend on the scans run earlier.
C4_ScanIsHistoryIndependent ==
    [][\A e \in Engines :
          EvaluateFindAvailableDrones(e)
              => <<availableTotal'[e], availableMyIdx'[e]>>
                     = UpdateAvailableDrones(e, 0, 0)]_vars

\* C5: after a scan the peer count is exactly the number of ids in
\* [0, totalDevices) that are mobile, not busy and assigned to the scanning
\* drone's area, whatever count an earlier scan left.
C5_PeerCountIsNumberOfAvailable ==
    [][\A e \in Engines :
          EvaluateFindAvailableDrones(e)
              => availableTotal'[e] = Cardinality(AvailableSet(e))]_vars

\* C5 witness: a scan counted two drones whose ids are not contiguous, after
\* an earlier, different count.
C5_Witness ==
    \E e \in Engines :
        /\ availableTotal[e] = 2
        /\ AvailableSet(e) = {0, 2}

----------------------------------------------------------------------------
(* Claims about the cells. *)

Min(a, b) == IF a <= b THEN a ELSE b

Max(a, b) == IF a >= b THEN a ELSE b

\* The length of the overlap of the intervals spanned by a1, a2 and b1, b2.
OverlapLength(a1, a2, b1, b2) ==
    Max(0, Min(Max(a1, a2), Max(b1, b2)) - Max(Min(a1, a2), Min(b1, b2)))

\* The area two rectangles share (0 when they only share a boundary).
SharedArea(c, d) ==
    OverlapLength(c.topLeft[1], c.bottomRight[1], d.topLeft[1], d.bottomRight[1])
    * OverlapLength(c.topLeft[2], c.bottomRight[2], d.topLeft[2], d.bottomRight[2])

\* The drones of the current snapshot that are mobile, not busy and assigned
\* to area a.
AvailableInArea(a) ==
    { i \in Devices : mobile[i] = 1 /\ busy[i] = 0 /\ assignedSearchArea[i] = a }

\* The sum over the drones of S of the area their cell shares with region.
RECURSIVE CoveredArea(_, _)
CoveredArea(S, region) ==
    IF S = {} THEN 0
    ELSE LET d == CHOOSE x \in S : TRUE
         IN SharedArea(myCell[d], region) + CoveredArea(S \ {d}, region)

\* The cells of the drones of S do not overlap pairwise and cover region.
CellsTile(S, region) ==
    /\ \A d1, d2 \in S : d1 # d2 => SharedArea(myCell[d1], myCell[d2]) = 0
    /\ CoveredArea(S, region) = SharedArea(region, region)

\* C2: on a snapshot with at least one available drone in an area, once the
\* drivers of all the available drones of the area have computed their cell,
\* the cells are pairwise non-overlapping and together cover the region.
C2_CellsOfOneSnapshotTileRegion ==
    \A a \in Areas :
        LET S == AvailableInArea(a)
        IN (/\ S # {}
            /\ \A d \in S : areaCoverageRequested[d] # 0 /\ cellInitialized[d] = 1)
           => CellsTile(S, searchRegion[a])

\* C3: a tick of a drone that needs a rank (its cell is not initialized) and
\* is absent from the filtered set publishes no cell, assigns no altitude,
\* issues no command and leaves the cell-initialized flag at 0.
C3_UnavailableDroneSkipsTick ==
    [][\A e \in Engines :
          (doAreaCoverage(e) /\ cellInitialized[e] = 0 /\ e \notin AvailableSet(e))
              => /\ cellInitialized'[e] = 0
                 /\ myCell'[e] = myCell[e]
                 /\ assignedAltitude'[e] = assignedAltitude[e]
                 /\ movementRequested'[e] = movementRequested[e]]_vars

\* C6: a tick of an available drone whose cell was computed for a peer count
\* other than the one of the tick's snapshot recomputes the cell for that
\* snapshot.
C6_PeerCountChangeRecomputesCell ==
    [][\A e \in Engines :
          (/\ doAreaCoverage(e)
           /\ cellInitialized[e] = 1
           /\ e \in AvailableSet(e)
           /\ availableTotal[e] # Cardinality(AvailableSet(e)))
              => myCell'[e] =
                     Partition(searchRegion[assignedSearchArea[e]],
                               availableMyIdx'[e],
                               Cardinality(AvailableSet(e))).region]_vars

----------------------------------------------------------------------------
(* Claims about the waypoints. *)

\* The drone is within the reach tolerance of the published target.
WithinTolerance(e) ==
    /\ Lat(devicePos[e]) - Lat(nextTarget[e]) \in -4..4
    /\ Lon(devicePos[e]) - Lon(nextTarget[e]) \in -4..4

\* C7: the driver asks for a next waypoint only when coverage is requested,
\* the cell is initialized, and either the pattern has produced no waypoint
\* yet or the drone is within the reach tolerance of the published target.
C7_NewTargetOnlyWhenNoneOrReached ==
    \A e \in Engines :
        CallsSetNewTarget(e)
            => /\ areaCoverageRequested[e] # 0
               /\ cellInitialized[e] = 1
               /\ (coverageAlgorithm[e].emitted = 0 \/ WithinTolerance(e))

\* C8: once the pattern targets its final waypoint, no tick asks for a next
\* waypoint.
C8_NoNewTargetAfterFinalWaypoint ==
    \A e \in Engines :
        (cellInitialized[e] = 1 /\ madaraReachedFinalTarget(e))
            => ~CallsSetNewTarget(e)

C10_EveryTickRefreshesRankAndPeerCount ==
    [][\A e \in Engines :
          doAreaCoverage(e)
              => <<availableTotal'[e], availableMyIdx'[e]>>
                     = UpdateAvailableDrones(e, availableTotal[e], availableMyIdx[e])]_vars

----------------------------------------------------------------------------
(* Claims about a new search request. *)

\* The cell drone e stores is not the one its stored rank and peer count give
\* for the region of the area it is assigned to now: the cell was computed
\* before a request moved the drone to an area with another region.
StoredCellIsOfAnotherRegion(e) ==
    myCell[e] # Partition(searchRegion[assignedSearchArea[e]],
                          availableMyIdx[e], availableTotal[e]).region

\* C11: a tick of a drone whose cell is initialized, after a request assigned
\* it an area with another region, resets the coverage state: it clears the
\* cell-initialized flag, or leaves a cell inside the new region.
C11_NewRequestResetsCoverageState ==
    [][\A e \in Engines :
          (/\ doAreaCoverage(e)
           /\ cellInitialized[e] = 1
           /\ StoredCellIsOfAnotherRegion(e))
              => \/ cellInitialized'[e] = 0
                 \/ SharedArea(myCell'[e], searchRegion[assignedSearchArea[e]])
                        = SharedArea(myCell'[e], myCell'[e])]_vars

----------------------------------------------------------------------------
(* Claims about the altitude. *)

\* Drone e ran madaraCalculateAndMoveToAltitude.
AltitudeAssigned(e) == movementRequested[e] = "move_to_altitude"

C13_AltitudeUsesConfiguredHeightDiff ==
    \A e \in Engines :
        AltitudeAssigned(e)
            => /\ assignedAltitude[e]
                      = minAltitude + availableMyIdx[e] * areaCoverageHeightDiff
               /\ movementTarget[e].alt = assignedAltitude[e]

----------------------------------------------------------------------------
(* Claims about one coordination step. *)

\* A tick of drone e taken in this state would change what the drone
\* publishes: the cell-initialized flag, the cell, the target, the movement
\* command or the progress of the pattern.
TickChangesPublishedState(e) ==
    /\ areaCoverageRequested[e] # 0
    /\ IF CallsSetNewTarget(e)
       THEN LET alg == AfterGetNextTargetLocation(coverageAlgorithm[e])
            IN \/ alg.emitted # coverageAlgorithm[e].emitted
               \/ TargetLocation(alg) # nextTarget[e]
               \/ movementRequested[e] # "move_to_gps"
       ELSE IF CallsInitSearchCell(e)
       THEN LET r == madaraInitSearchCell(e)
            IN r.returns = 1 \/ r.cell # myCell[e]
       ELSE FALSE

\* C14: with the snapshot, the position and the mission parameters unchanged,
\* a second tick right after a tick changes nothing the drone publishes.
C14_StepIsIdempotent ==
    [][\A e \in Engines :
          doAreaCoverage(e) => ~TickChangesPublishedState(e)']_vars

\* The pattern's initialize, given the scan of this tick and the region of
\* the drone's area, yields a cell.
InitializeYieldsCell(e) ==
    LET scan == UpdateAvailableDrones(e, availableTotal[e], availableMyIdx[e])
    IN ~Partition(searchRegion[assignedSearchArea[e]], scan[2], scan[1]).null

\* C15: a tick that tries to initialize the cell while the pattern yields
\* none leaves the cell-initialized flag at 0, the cell corners, the assigned
\* altitude and the movement command as they were, and the next tick tries
\* to initialize the cell again.
C15_FailedCellInitIsSkippedAndRetried ==
    [][\A e \in Engines :
          (doAreaCoverage(e) /\ CallsInitSearchCell(e) /\ ~InitializeYieldsCell(e))
              => /\ cellInitialized'[e] = 0
                 /\ myCell'[e] = myCell[e]
                 /\ assignedAltitude'[e] = assignedAltitude[e]
                 /\ movementRequested'[e] = movementRequested[e]
                 /\ movementTarget'[e] = movementTarget[e]
                 /\ CallsInitSearchCell(e)']_vars

\* C15 witness: a drone whose coverage is requested created a pattern that
\* holds no cell, and its cell is still not initialized.
C15_Witness ==
    \E e \in Engines :
        /\ areaCoverageRequested[e] # 0
        /\ coverageAlgorithm[e].kind = "snake"
        /\ ~coverageAlgorithm[e].hasCell
        /\ cellInitialized[e] = 0
        /\ movementRequested[e] = "none"

\* The step leaves the record of drone j as it was: position, mobile and
\* busy flags, assigned area, assigned altitude, and, for a drone whose
\* engine is part of the state, cell and target.
RecordUnchanged(j) ==
    /\ devicePos'[j] = devicePos[j]
    /\ mobile'[j] = mobile[j]
    /\ busy'[j] = busy[j]
    /\ assignedSearchArea'[j] = assignedSearchArea[j]
    /\ assignedAltitude'[j] = assignedAltitude[j]
    /\ j \in Engines => /\ myCell'[j] = myCell[j]
                        /\ nextTarget'[j] = nextTarget[j]
                        /\ movementTarget'[j] = movementTarget[j]

\* C16: a tick of drone k changes the record of no other drone; and a tick
\* in which only the availability scan takes effect (the pattern yields no
\* cell) changes no record at all, k's included.
C16_NoCrossDroneMutation ==
    [][\A k \in Engines :
          doAreaCoverage(k)
              => /\ \A j \in Devices \ {k} : RecordUnchanged(j)
                 /\ (CallsInitSearchCell(k) /\ ~InitializeYieldsCell(k))
                        => RecordUnchanged(k)]_vars

\* C16 witness: a drone initialized its cell and was assigned an altitude
\* while the index it held was the id of another drone, and that drone has
\* no altitude.
C16_Witness ==
    \E k \in Engines : \E j \in Devices \ {k} :
        /\ cellInitialized[k] = 1
        /\ availableMyIdx[k] = j
        /\ assignedAltitude[k] = myDefaultAltitude(j)
        /\ assignedAltitude[k] > 0
        /\ assignedAltitude[j] = 0

\* C17: in a tick that initializes the cell, the peer count and the index
\* stored, the cell published and the altitude assigned are all the values
\* the snapshot of that tick determines: the scan of this snapshot alone,
\* and the region the snapshot holds for the drone's area.
C17_CellInitUsesOneSnapshot ==
    [][\A e \in Engines :
          (doAreaCoverage(e) /\ CallsInitSearchCell(e) /\ InitializeYieldsCell(e))
              => LET snapshot == UpdateAvailableDrones(e, 0, 0)
                 IN /\ availableTotal'[e] = snapshot[1]
                    /\ availableMyIdx'[e] = snapshot[2]
                    /\ myCell'[e] = Partition(searchRegion[assignedSearchArea[e]],
                                              snapshot[2], snapshot[1]).region
                    /\ assignedAltitude'[e]
                           = minAltitude + ALTITUDE_DIFFERENCE * snapshot[2]]_vars

----------------------------------------------------------------------------
(* Claims about the coverage strategy. *)

\* C18: the pattern generator a tick creates when it initializes the cell
\* is the algorithm named by the request the drone holds.
C18_ActivePatternIsRequestedAlgorithm ==
    [][\A e \in Engines :
          (doAreaCoverage(e) /\ CallsInitSearchCell(e) /\ cellInitialized'[e] = 1)
              => coverageAlgorithm'[e].kind
                     = SearchAlgorithms[areaCoverageRequested[e]]]_vars

\* ceil(cellHeight / lineWidth): the least number of line widths that span
\* the height of the cell.
CeilHeightInLineWidths(cell) ==
    LET h == Abs(cell.bottomRight[2] - cell.topLeft[2])
    IN CHOOSE n \in 0..h : n * LineWidth >= h
                           /\ \A m \in 0..h : m * LineWidth >= h => n <= m

\* The cell of the scenario of section 8, ((0,0),(2,10)) with line width 1:
\* 2 line widths wide and 10 line widths high.
ScenarioCell == Region(Pos(0, 0), Pos(2 * LineWidth, 10 * LineWidth))

\* What a call of getNextTargetLocation by drone e leaves: the pattern
\* targets its final waypoint exactly when it has emitted
\* 2 * ceil(cellHeight / lineWidth) waypoints; the second waypoint of a row
\* is on the same row at the other side of the cell; the first waypoint of
\* the next row is one line width further, on the side the previous row
\* ended, so that consecutive rows are swept in opposite directions.
SnakeSweep(e) ==
    LET alg  == coverageAlgorithm'[e]
        k    == alg.emitted
        prev == nextTarget[e]
        new  == nextTarget'[e]
    IN /\ IsTargetingFinalWaypoint(alg)
              <=> k = 2 * CeilHeightInLineWidths(alg.cell)
       /\ (k >= 2 /\ k % 2 = 0)
              => /\ Lon(new) = Lon(prev)
                 /\ Lat(new) # Lat(prev)
                 /\ {Lat(new), Lat(prev)}
                        = {alg.cell.topLeft[1], alg.cell.bottomRight[1]}
       /\ (k >= 3 /\ k % 2 = 1)
              => /\ Lat(new) = Lat(prev)
                 /\ Abs(Lon(new) - Lon(prev)) = LineWidth

----------------------------------------------------------------------------
(* Claims about the response to a request. *)

\* No target was published for drone e: the target variables are unset and
\* the pattern has emitted no waypoint.
NoTargetPublished(e) ==
    /\ nextTarget[e] = Pos(0, 0)
    /\ coverageAlgorithm[e].kind = "null" \/ coverageAlgorithm[e].emitted = 0

\* C20: a tick of a requested drone whose cell is not initialized and can be
\* computed sets the cell-initialized flag, publishes the cell and commands
\* the altitude, and leaves a state in which the next tick asks for a
\* waypoint; a tick of a drone whose cell is initialized and that has no
\* target published publishes the first waypoint of the pattern with a
\* move-to-GPS command.
C20_FirstWaypointWithinTwoTicks ==
    [][\A e \in Engines :
          (doAreaCoverage(e) /\ NoTargetPublished(e))
              => /\ (cellInitialized[e] = 0 /\ InitializeYieldsCell(e))
                        => /\ cellInitialized'[e] = 1
                           /\ myCell'[e] = coverageAlgorithm'[e].cell
                           /\ movementRequested'[e] = "move_to_altitude"
                           /\ movementTarget'[e].alt = assignedAltitude'[e]
                           /\ CallsSetNewTarget(e)'
                 /\ cellInitialized[e] = 1
                        => /\ coverageAlgorithm'[e].emitted = 1
                           /\ nextTarget'[e]
                                  = SnakeWaypoint(myCell[e], coverageAlgorithm[e].rank, 1)
                           /\ movementTarget'[e].lat = Lat(nextTarget'[e])
                           /\ movementTarget'[e].lon = Lon(nextTarget'[e])
                           /\ movementRequested'[e] = "move_to_gps"]_vars

\* C20 witness: a drone published the first waypoint of its pattern, away
\* from latitude 0, longitude 0, and is commanded to it.
C20_Witness ==
    \E e \in Engines :
        /\ cellInitialized[e] = 1
        /\ coverageAlgorithm[e].emitted = 1
        /\ nextTarget[e] # Pos(0, 0)
        /\ movementRequested[e] = "move_to_gps"
        /\ movementTarget[e].lat = Lat(nextTarget[e])

----------------------------------------------------------------------------
(* Claims about the frame of a tick. *)

\* What the engine of drone e holds and publishes is left as it was.
EngineStateUnchanged(e) ==
    /\ cellInitialized'[e] = cellInitialized[e]
    /\ myCell'[e] = myCell[e]
    /\ nextTarget'[e] = nextTarget[e]
    /\ assignedAltitude'[e] = assignedAltitude[e]
    /\ movementRequested'[e] = movementRequested[e]
    /\ movementTarget'[e] = movementTarget[e]
    /\ availableTotal'[e] = availableTotal[e]
    /\ availableMyIdx'[e] = availableMyIdx[e]
    /\ coverageAlgorithm'[e] = coverageAlgorithm[e]

\* C21: a tick of a drone whose area-coverage-requested flag is not set
\* changes nothing: the cell-initialized flag, the cell, the target, the
\* assigned altitude, the movement command, the peer count and index and the
\* pattern are left as they were.
C21_UnrequestedTickChangesNothing ==
    [][\A e \in Engines :
          (doAreaCoverage(e) /\ areaCoverageRequested[e] = 0)
              => EngineStateUnchanged(e)]_vars

\* C21 witness: a drone without a request that is mobile, not busy and whose
\* area has a region that can be cut in cells, so that a tick would
\* initialize its cell were the flag set; its engine holds nothing.
C21_Witness ==
    \E e \in Engines :
        /\ areaCoverageRequested[e] = 0
        /\ mobile[e] = 1 /\ busy[e] = 0
        /\ InitializeYieldsCell(e)
        /\ cellInitialized[e] = 0
        /\ coverageAlgorithm[e] = NullAlgorithm
        /\ movementRequested[e] = "none"

----------------------------------------------------------------------------
(* Claims about the flight layers. *)

\* C22: two distinct drones that have both initialized a cell for the same
\* search area have different assigned altitudes, whatever their mobile and
\* busy flags were in the snapshots they initialized from.
C22_CoLocatedDronesHaveDistinctAltitudes ==
    \A d1, d2 \in Engines :
        (/\ d1 # d2
         /\ cellInitialized[d1] = 1 /\ cellInitialized[d2] = 1
         /\ assignedSearchArea[d1] = assignedSearchArea[d2])
            => assignedAltitude[d1] # assignedAltitude[d2]

\* Drone d ran the availability scan: its tick called madaraInitSearchCell,
\* which evaluates the scan first and then creates the pattern.
HasScanned(d) == coverageAlgorithm[d] # NullAlgorithm

\* C23: on one snapshot, two distinct drones that are both mobile, not busy
\* and assigned to the same area, and that both ran the availability scan,
\* hold different ranks (stored indices).
C23_AvailableDronesResolveDistinctRanks ==
    \A d1, d2 \in Engines :
        (/\ d1 # d2
         /\ d1 \in AvailableSet(d1) /\ d2 \in AvailableSet(d1)
         /\ HasScanned(d1) /\ HasScanned(d2))
            => availableMyIdx[d1] # availableMyIdx[d2]

\* C23 witness: two available drones of one area have both scanned, each
\* counting two peers, and the one with the larger id holds a rank other
\* than 0.
C23_Witness ==
    \E d1, d2 \in Engines :
        /\ d1 < d2
        /\ d1 \in AvailableSet(d1) /\ d2 \in AvailableSet(d1)
        /\ HasScanned(d1) /\ HasScanned(d2)
        /\ availableTotal[d1] = 2 /\ availableTotal[d2] = 2
        /\ availableMyIdx[d2] > 0

----------------------------------------------------------------------------
(* Claims about the order of the commands. *)

\* The step writes the altitude of drone e: the assigned altitude, the
\* altitude of the movement target or the cell-initialized flag changes.
AltitudeWritten(e) ==
    \/ assignedAltitude'[e] # assignedAltitude[e]
    \/ movementTarget'[e].alt # movementTarget[e].alt
    \/ cellInitialized'[e] # cellInitialized[e]

\* The step writes a waypoint of drone e: the pattern advances, or the
\* target or the position of the movement target changes.
WaypointWritten(e) ==
    \/ coverageAlgorithm[e] # NullAlgorithm
           /\ coverageAlgorithm'[e].emitted # coverageAlgorithm[e].emitted
    \/ nextTarget'[e] # nextTarget[e]
    \/ movementTarget'[e].lat # movementTarget[e].lat
    \/ movementTarget'[e].lon # movementTarget[e].lon

\* C24: no tick publishes both a move-to-altitude and a move-to-GPS command;
\* a tick that leaves a move-to-GPS command where there was none finds the
\* move-to-altitude command of an earlier tick, carrying the drone's assigned
\* altitude; and a tick that writes a waypoint leaves the move-to-GPS command
\* with the altitude of the movement target still the assigned altitude.
C24_AltitudeCommandBeforeFirstWaypoint ==
    [][\A e \in Engines :
          doAreaCoverage(e)
              => /\ ~(AltitudeWritten(e) /\ WaypointWritten(e))
                 /\ (movementRequested'[e] = "move_to_gps"
                      /\ movementRequested[e] # "move_to_gps")
                        => /\ movementRequested[e] = "move_to_altitude"
                           /\ cellInitialized[e] = 1
                           /\ movementTarget[e].alt = assignedAltitude[e]
                 /\ WaypointWritten(e)
                        => /\ movementRequested'[e] = "move_to_gps"
                           /\ cellInitialized[e] = 1
                           /\ movementTarget'[e].alt = assignedAltitude'[e]
                           /\ movementTarget'[e].alt >= minAltitude]_vars

\* C24 witness: the drone with the largest id, holding an index other than
\* 0, was sent to its altitude and then to at least two waypoints; the
\* altitude of its movement target is its assigned altitude.
C24_Witness ==
    \E e \in Engines :
        /\ availableMyIdx[e] > 0
        /\ cellInitialized[e] = 1
        /\ coverageAlgorithm[e].emitted >= 2
        /\ movementRequested[e] = "move_to_gps"
        /\ movementTarget[e].alt = assignedAltitude[e]
        /\ assignedAltitude[e] = minAltitude + ALTITUDE_DIFFERENCE * availableMyIdx[e]

----------------------------------------------------------------------------
(* Claims about the life time of the pattern object. *)

\* m_coverageAlgorithm of drone e refers to an allocated object that was not
\* deleted.
PointsToLiveInstance(e) ==
    /\ coverageAlgorithm[e] # NullAlgorithm
    /\ coverageAlgorithm[e].deletes = 0

\* C25: over every sequence of initialize, ticks and cleanup, a drone whose
\* cell-initialized flag is 1 (whose ticks dereference the pattern) has a
\* pattern pointer that refers to an allocated, not yet deleted object, and
\* no object is deleted twice.
C25_InitializedCellHasLiveAlgorithm ==
    \A e \in Engines :
        /\ cellInitialized[e] = 1 => PointsToLiveInstance(e)
        /\ coverageAlgorithm[e] # NullAlgorithm => coverageAlgorithm[e].deletes <= 1

\* C26: after madaraSetNewCoverage has switched the drone to random
\* coverage, the cell it publishes is the whole search area: the top-left
\* corner published is that of the region of the drone's area, and so is the
\* bottom-right corner.
C26_NewCoverageCellIsWholeArea ==
    [][\A e \in Engines :
          setNewCoverage(e)
              => /\ myCell'[e].topLeft = searchRegion[assignedSearchArea[e]].topLeft
                 /\ myCell'[e].bottomRight
                        = searchRegion[assignedSearchArea[e]].bottomRight]_vars

----------------------------------------------------------------------------
(* Claims about the publication of a waypoint. *)

\* C27: every time madaraSetNewTarget runs, the movement target equals the
\* new search target in latitude and longitude, both are the one waypoint a
\* single getNextTargetLocation call returns (the next of the pattern while
\* it has one), and the movement command is move-to-GPS; the call consumes
\* no more than that one waypoint, and a tick that does not run
\* madaraSetNewTarget consumes none.
C27_SetNewTargetPublishesOneWaypoint ==
    [][\A e \in Engines :
          doAreaCoverage(e)
              => /\ CallsSetNewTarget(e)
                        => LET before == coverageAlgorithm[e]
                               after  == coverageAlgorithm'[e]
                           IN /\ movementTarget'[e].lat = Lat(nextTarget'[e])
                              /\ movementTarget'[e].lon = Lon(nextTarget'[e])
                              /\ movementRequested'[e] = "move_to_gps"
                              /\ nextTarget'[e]
                                     = SnakeWaypoint(before.cell, before.rank, after.emitted)
                              /\ after.emitted - before.emitted \in {0, 1}
                              /\ before.emitted < SnakeWaypoints(before.cell)
                                     => after.emitted = before.emitted + 1
                              /\ after.cell = before.cell /\ after.rank = before.rank
                 /\ ~CallsSetNewTarget(e)
                        => /\ nextTarget'[e] = nextTarget[e]
                           /\ coverageAlgorithm'[e] = coverageAlgorithm[e]
                                 \/ coverageAlgorithm'[e].emitted = 0]_vars

\* C27 witness: a drone was handed the second waypoint of its pattern, which
\* is not at latitude 0, longitude 0: the target and the movement target
\* are that waypoint and the command is move-to-GPS.
C27_Witness ==
    \E e \in Engines :
        /\ cellInitialized[e] = 1
        /\ coverageAlgorithm[e].emitted = 2
        /\ nextTarget[e] = TargetLocation(coverageAlgorithm[e])
        /\ nextTarget[e] # Pos(0, 0)
        /\ movementTarget[e].lat = Lat(nextTarget[e])
        /\ movementTarget[e].lon = Lon(nextTarget[e])
        /\ movementRequested[e] = "move_to_gps"

----------------------------------------------------------------------------
(* Claims about the system controller. *)

\* The variable name(index) is set in the knowledge base kb.
IsSet(kb, name, index) == <<name, index>> \in DOMAIN kb

\* The region ids under which kb stores corners.
RegionIds(kb) ==
    { k[2] : k \in { j \in DOMAIN kb : j[1] = "MV_REGION_TOPLEFT_LOC" } }

\* The corners kb stores for region id r.
Corners(kb, r) ==
    Region(kb[<<"MV_REGION_TOPLEFT_LOC", r>>], kb[<<"MV_REGION_BOTRIGHT_LOC", r>>])

\* C28: over any sequence of setupBridgeRequest and setNewSearchArea calls,
\* every region id handed out differs from all the ids handed out before; a
\* bridge gets two distinct ids, the source's first; and no call changes the
\* corners stored for a region registered earlier.
C28_RegionIdsAreFresh ==
    [][/\ \A r \in RegionIds(m_knowledge) :
              /\ r \in RegionIds(m_knowledge')
              /\ Corners(m_knowledge', r) = Corners(m_knowledge, r)
       /\ \A a \in Areas, rg \in ControllerRegions :
              setNewSearchArea(a, rg)
                  => LET id == m_knowledge'[<<"MV_SEARCH_AREA_REGION", a>>]
                     IN /\ id \notin RegionIds(m_knowledge)
                        /\ RegionIds(m_knowledge') = RegionIds(m_knowledge) \cup {id}
                        /\ Corners(m_knowledge', id) = rg
       /\ \A b \in Bridges, r1, r2 \in ControllerRegions :
              setupBridgeRequest(b, r1, r2)
                  => LET source == m_knowledge'[<<"MV_BRIDGE_SOURCE_REGION_ID", b>>]
                         sink   == m_knowledge'[<<"MV_BRIDGE_SINK_REGION_ID", b>>]
                     IN /\ source \notin RegionIds(m_knowledge)
                        /\ sink \notin RegionIds(m_knowledge)
                        /\ source < sink
                        /\ RegionIds(m_knowledge')
                               = RegionIds(m_knowledge) \cup {source, sink}
                        /\ Corners(m_knowledge', source) = r1
                        /\ Corners(m_knowledge', sink) = r2]_vars

\* C28 witness: a search area was registered, then a bridge, then the same
\* search area again with other corners: four region ids were handed out and
\* the corners of the first registration are still stored.
C28_Witness ==
    \E a \in Areas, b \in Bridges :
        /\ IsSet(m_knowledge, "MV_SEARCH_AREA_REGION", a)
        /\ IsSet(m_knowledge, "MV_BRIDGE_SOURCE_REGION_ID", b)
        /\ m_knowledge[<<"MV_SEARCH_AREA_REGION", a>>] = 3
        /\ m_knowledge[<<"MV_BRIDGE_SOURCE_REGION_ID", b>>] = 1
        /\ m_knowledge[<<"MV_BRIDGE_SINK_REGION_ID", b>>] = 2
        /\ RegionIds(m_knowledge) = 0..3
        /\ Corners(m_knowledge, 0) # Corners(m_knowledge, 3)

\* The search areas and the bridges registered in the knowledge base kb.
RegisteredSearchAreas(kb) == { a \in Areas : IsSet(kb, "MV_SEARCH_AREA_REGION", a) }

RequestedBridges(kb) == { b \in Bridges : IsSet(kb, "MV_BRIDGE_SOURCE_REGION_ID", b) }

\* C29: the published total of search areas is greater than the id of every
\* search area registered so far, and the published total of bridges is
\* greater than every bridge id requested so far, in whatever order the ids
\* were used.
C29_TotalsExceedEveryRegisteredId ==
    /\ \A a \in RegisteredSearchAreas(m_knowledge) :
           m_knowledge[<<"MV_TOTAL_SEARCH_AREAS", 0>>] > a
    /\ \A b \in RequestedBridges(m_knowledge) :
           m_knowledge[<<"MV_TOTAL_BRIDGES", 0>>] > b

\* The place of key in the packet p.
PacketIndex(p, key) == CHOOSE n \in 1..Len(p) : p[n].key = key

\* The packet p carries value for key.
Carries(p, key, value) == InPacket(p, key) /\ PacketValue(p, key) = value

PositionNamed(name) ==
    LET parts == stringSplit(name, "_")
    IN Pos(atof(parts[2]), atof(parts[3]))

\* The location variables of kb whose names have three parts or more.
NamedLocations(kb) ==
    SelectSeq(ThermalLocations(kb), LAMBDA name : Len(stringSplit(name, "_")) >= 3)

\* How many times p occurs in the sequence positions.
Occurrences(positions, p) ==
    Cardinality({ k \in 1..Len(positions) : positions[k] = p })

\* C31: getCurrentThermals returns one position for every variable named
\* location_<lat>_<lon>, with the number in part 1 as latitude and the number
\* in part 2 as longitude, and none for a name of fewer than three parts.
C31_ThermalsAreThePositionsNamed ==
    [][ getCurrentThermals =>
            LET names == NamedLocations(m_knowledge)
                expected == [k \in 1..Len(names) |-> PositionNamed(names[k])]
            IN /\ Len(currentThermals') = Len(expected)
               /\ \A k \in 1..Len(expected) :
                      Occurrences(currentThermals', expected[k])
                          = Occurrences(expected, expected[k])
      ]_vars

\* C32: at most one coverage-algorithm object is allocated and not deleted
\* at any time, over every sequence of ticks, the ticks whose cell
\* initialisation fails and is retried included, and of
\* area_coverage_setNewCoverage evaluations.
C32_AtMostOneLiveInstance ==
    \A e \in Engines : liveInstances[e] <= 1

====
